---------------------------- MODULE Spec2Model ----------------------------
(***************************************************************************)
(* A model of the MemTable of db/memtable.{h,cc}: the entry encoding that  *)
(* Add writes into arena memory, the entry comparator, the ordered index  *)
(* of entry pointers, Get, the table iterator, the reference count and    *)
(* the memory usage counter.                                               *)
(*                                                                         *)
(* Memory is modelled byte by byte.  The arena is the sequence of the      *)
(* bytes allocated so far; a pointer into it is an address (1 is the first *)
(* byte, 0 is the null pointer).  A 64-bit unsigned integer is a sequence of four     *)
(* 16-bit words, least significant first, so that the full width of the    *)
(* tag field (56-bit sequence number, 8-bit type) is kept.                 *)
(***************************************************************************)
EXTENDS Integers, Sequences, FiniteSets, TLC

(***************************************************************************)
(* Bounds of the model.                                                    *)
(***************************************************************************)
\* Number of Add calls made on one table.
MaxAdds == 2
\* Sequence numbers used by the callers are SeqBase+1 .. SeqBase+MaxSeq; the
\* range straddles a byte boundary of the little-endian tag.
MaxSeq == 2
SeqBase == 254
\* Number of Ref calls made on one table.
MaxRefs == 3
\* Number of iterators created on one table.
MaxIters == 2

(***************************************************************************)
(* Values of the model.                                                    *)
(***************************************************************************)

\* The ValueType enumeration of db/dbformat.h.
kTypeDeletion == 0
kTypeValue == 1
ValueTypes == {kTypeDeletion, kTypeValue}
\* The type a LookupKey carries: the highest-numbered ValueType.
kValueTypeForSeek == kTypeValue

\* User keys: the empty key, "a", "ab".
UserKeys == {<<>>, <<97>>, <<97, 98>>}
\* Values: the empty value, "x".
Values == {<<>>, <<120>>}
\* What an uninitialized byte of a fresh arena buffer may hold.
GarbageBytes == {0, 255}

(***************************************************************************)
(* 64-bit unsigned integers: four 16-bit words, least significant first.   *)
(***************************************************************************)
Word == 256 * 256

U64Of(n) == <<n % Word, (n \div Word) % Word, 0, 0>>

\* -1, 0, +1 as a is below, equal to or above b.
U64Compare(a, b) ==
  IF a = b THEN 0
  ELSE LET d == CHOOSE i \in 1..4 :
                  /\ a[i] # b[i]
                  /\ \A j \in (i+1)..4 : a[j] = b[j]
       IN IF a[d] < b[d] THEN -1 ELSE 1

\* x << 8 on 64 bits: the top byte is shifted out.
U64Shl8(x) ==
  [i \in 1..4 |-> (x[i] % 256) * 256 + (IF i = 1 THEN 0 ELSE x[i-1] \div 256)]

\* x >> 8 on 64 bits.
U64Shr8(x) ==
  [i \in 1..4 |-> (x[i] \div 256) + (IF i = 4 THEN 0 ELSE (x[i+1] % 256) * 256)]

RECURSIVE BitOr(_, _)
BitOr(a, b) ==
  IF a = 0 THEN b
  ELSE IF b = 0 THEN a
  ELSE (IF a % 2 = 1 \/ b % 2 = 1 THEN 1 ELSE 0) + 2 * BitOr(a \div 2, b \div 2)

\* x | t for a t below 2^16.
U64Or(x, t) == [x EXCEPT ![1] = BitOr(x[1], t)]

\* x & 0xff.
U64LowByte(x) == x[1] % 256

\* The largest sequence number: 2^56 - 1.
kMaxSequenceNumber == <<65535, 65535, 65535, 255>>

(***************************************************************************)
(* util/coding: fixed-width and variable-length integers.                  *)
(***************************************************************************)
\* EncodeFixed64: eight bytes, least significant first.
EncodeFixed64(x) ==
  [i \in 1..8 |-> IF i % 2 = 1 THEN x[(i + 1) \div 2] % 256
                               ELSE x[i \div 2] \div 256]

\* The byte at index i of bytes; what lies outside the bytes reads as 0 (no
\* reachable state of the program reads or writes there).
Ld(bytes, i) == IF i \in 1..Len(bytes) THEN bytes[i] ELSE 0

\* DecodeFixed64 of the eight bytes at offset p of bytes.
DecodeFixed64(bytes, p) ==
  [i \in 1..4 |-> Ld(bytes, p + 2 * i - 1) + 256 * Ld(bytes, p + 2 * i)]

RECURSIVE EncodeVarint32(_)
EncodeVarint32(v) ==
  IF v < 128 THEN <<v>>
  ELSE <<(v % 128) + 128>> \o EncodeVarint32(v \div 128)

RECURSIVE VarintLength(_)
VarintLength(v) == IF v < 128 THEN 1 ELSE 1 + VarintLength(v \div 128)

\* GetVarint32Ptr(p, limit, &value): the value and the pointer past it, or
\* a null pointer (p = -1) when no final byte lies below limit.
RECURSIVE GetVarint32Loop(_, _, _, _, _)
GetVarint32Loop(bytes, p, limit, mult, result) ==
  IF p >= limit \/ p >= Len(bytes) \/ mult > 128 * 128 * 128 * 128
    THEN [value |-> 0, p |-> -1]
  ELSE LET b == bytes[p + 1]
       IN IF b >= 128
            THEN GetVarint32Loop(bytes, p + 1, limit, mult * 128,
                                 result + (b % 128) * mult)
            ELSE [value |-> result + b * mult, p |-> p + 1]

GetVarint32Ptr(bytes, p, limit) == GetVarint32Loop(bytes, p, limit, 1, 0)


(***************************************************************************)
(* Slices: a pointer (0-based offset into a byte sequence) and a size.     *)
(***************************************************************************)
Slice(data, size) == [data |-> data, size |-> size]

\* The bytes of a slice of bytes.
SliceBytes(bytes, sl) ==
  IF sl.data >= 0 /\ sl.size >= 0 /\ sl.data + sl.size <= Len(bytes)
    THEN SubSeq(bytes, sl.data + 1, sl.data + sl.size)
    ELSE [i \in 1..sl.size |-> Ld(bytes, sl.data + i)]

\* GetLengthPrefixedSlice(data): the slice that the varint32 at data
\* announces.
GetLengthPrefixedSlice(bytes, data) ==
  LET r == GetVarint32Ptr(bytes, data, data + 5)
  IN Slice(r.p, r.value)

(***************************************************************************)
(* Comparators.                                                            *)
(***************************************************************************)
Min(a, b) == IF a < b THEN a ELSE b

\* The user comparator: bytewise order (memcmp, then the shorter first).
BytewiseCompare(a, b) ==
  LET n == Min(Len(a), Len(b))
      diff == {i \in 1..n : a[i] # b[i]}
  IN IF diff # {}
       THEN LET i == CHOOSE x \in diff : \A y \in diff : x <= y
            IN IF a[i] < b[i] THEN -1 ELSE 1
     ELSE IF Len(a) < Len(b) THEN -1
     ELSE IF Len(a) > Len(b) THEN 1
     ELSE 0

ExtractUserKey(ikey) == SliceBytes(ikey, Slice(0, Len(ikey) - 8))

\* InternalKeyComparator::Compare: increasing user key, then decreasing
\* tag (sequence number, then type).
InternalKeyCompare(a, b) ==
  LET r == BytewiseCompare(ExtractUserKey(a), ExtractUserKey(b))
  IN IF r # 0 THEN r
     ELSE LET anum == DecodeFixed64(a, Len(a) - 8)
              bnum == DecodeFixed64(b, Len(b) - 8)
          IN IF U64Compare(anum, bnum) > 0 THEN -1
             ELSE IF U64Compare(anum, bnum) < 0 THEN 1
             ELSE 0

\* A comparator that forgets the length prefix and compares the raw
\* buffers.
KeyComparatorRaw(abytes, bbytes) == BytewiseCompare(abytes, bbytes)

\* A comparator that compares the user keys only.
KeyComparatorUserKeyOnly(abytes, bbytes) ==
  LET a == GetLengthPrefixedSlice(abytes, 0)
      b == GetLengthPrefixedSlice(bbytes, 0)
  IN BytewiseCompare(ExtractUserKey(SliceBytes(abytes, a)),
                     ExtractUserKey(SliceBytes(bbytes, b)))

\* MemTable::KeyComparator::operator(): both operands are length-prefixed
\* internal keys.
KeyComparator(abytes, bbytes) ==
  LET a == GetLengthPrefixedSlice(abytes, 0)
      b == GetLengthPrefixedSlice(bbytes, 0)
  IN InternalKeyCompare(SliceBytes(abytes, a), SliceBytes(bbytes, b))

(***************************************************************************)
(* The ordered index (db/skiplist.h): a list of entry pointers (addresses)  *)
(* in comparator order; 0 is the null node.  m is the arena memory the      *)
(* pointers point into.                                                    *)
(***************************************************************************)
\* The memory that starts at address ptr.
At(m, ptr) == SubSeq(m, ptr, Len(m))

\* The index in list of the first node, from the i-th on, whose key is at
\* or after target; Len(list) + 1 when there is none.
RECURSIVE PosGreaterOrEqual(_, _, _, _)
PosGreaterOrEqual(list, m, target, i) ==
  IF i > Len(list) THEN i
  ELSE IF KeyComparator(At(m, list[i]), target) >= 0 THEN i
  ELSE PosGreaterOrEqual(list, m, target, i + 1)

\* The first node whose key is at or after target, or 0.
RECURSIVE FindGreaterOrEqualFrom(_, _, _, _)
FindGreaterOrEqualFrom(list, m, target, i) ==
  IF i > Len(list) THEN 0
  ELSE IF KeyComparator(At(m, list[i]), target) >= 0 THEN list[i]
  ELSE FindGreaterOrEqualFrom(list, m, target, i + 1)

FindGreaterOrEqual(list, m, target) == FindGreaterOrEqualFrom(list, m, target, 1)

\* The last node whose key is before target, or 0.
RECURSIVE FindLessThanFrom(_, _, _, _, _)
FindLessThanFrom(list, m, target, i, before) ==
  IF i > Len(list) THEN before
  ELSE IF KeyComparator(At(m, list[i]), target) >= 0 THEN before
  ELSE FindLessThanFrom(list, m, target, i + 1, list[i])

FindLessThan(list, m, target) == FindLessThanFrom(list, m, target, 1, 0)

FindLast(list) == IF list = <<>> THEN 0 ELSE list[Len(list)]

IndexOf(list, node) == CHOOSE i \in 1..Len(list) : list[i] = node

\* The node after node, or 0.
SkipNext(list, node) ==
  IF IndexOf(list, node) = Len(list) THEN 0 ELSE list[IndexOf(list, node) + 1]

\* SkipList::Insert(key): key is linked in before the first node that is at
\* or after it.
SkipInsert(list, m, key) ==
  LET n == PosGreaterOrEqual(list, m, At(m, key), 1)
  IN SubSeq(list, 1, n - 1) \o <<key>> \o SubSeq(list, n, Len(list))

(***************************************************************************)
(* MemTable::Add.  a is the call's arguments [s, type, key, value].        *)
(***************************************************************************)
\* A tag that leaves the sequence number unshifted.
TagOfUnshifted(s, type) == U64Or(s, type)

\* (s << 8) | type
TagOf(s, type) == U64Or(U64Shl8(s), type)

InternalKeySize(key) == Len(key) + 8

\* An encoded length that counts the user key and the value only.
EncodedLenPayload(key, value) == Len(key) + Len(value)

\* An encoded length that forgets the tag.
EncodedLenNoTag(key, value) ==
  VarintLength(Len(key)) + Len(key) + VarintLength(Len(value)) + Len(value)

EncodedLen(key, value) ==
  VarintLength(InternalKeySize(key)) + InternalKeySize(key)
    + VarintLength(Len(value)) + Len(value)

\* The writing statements of Add in another order: the entry is inserted
\* before its value is copied.
AddStepsInsertEarly == <<"key_size", "key", "tag", "val_size", "insert", "value">>

\* An Add that inserts the entry before it writes the length of the value.
AddStepsInsertBeforeValueSize ==
  <<"key_size", "key", "tag", "insert", "val_size", "value">>

\* The statements of Add that follow the allocation, in program order.
AddSteps == <<"key_size", "key", "tag", "val_size", "value", "insert">>

\* The memory m with data stored at address p.
WriteAt(m, p, data) ==
  IF p + Len(data) - 1 <= Len(m)
    THEN SubSeq(m, 1, p - 1) \o data \o SubSeq(m, p + Len(data), Len(m))
    ELSE [i \in 1..Len(m) |->
            IF i >= p /\ i < p + Len(data) THEN data[i - p + 1] ELSE m[i]]

\* The effect of one writing statement on the memory and on the pointer p.
AddWrite(step, a, st) ==
  CASE step = "key_size" ->
         LET d == EncodeVarint32(InternalKeySize(a.key))
         IN [mem |-> WriteAt(st.mem, st.p, d), p |-> st.p + Len(d)]
    [] step = "key" ->
         [mem |-> WriteAt(st.mem, st.p, a.key), p |-> st.p + Len(a.key)]
    [] step = "tag" ->
         [mem |-> WriteAt(st.mem, st.p, EncodeFixed64(TagOf(a.s, a.type))),
          p |-> st.p + 8]
    [] step = "val_size" ->
         LET d == EncodeVarint32(Len(a.value))
         IN [mem |-> WriteAt(st.mem, st.p, d), p |-> st.p + Len(d)]
    [] step = "value" ->
         [mem |-> WriteAt(st.mem, st.p, a.value), p |-> st.p]
    [] OTHER -> st

\* The memory after all statements of Add from the i-th on.
RECURSIVE AddWritesFrom(_, _, _)
AddWritesFrom(i, a, st) ==
  IF i > Len(AddSteps) THEN st
  ELSE AddWritesFrom(i + 1, a, AddWrite(AddSteps[i], a, st))

\* The memory after Add has written its entry into the buffer at buf.
EncodeEntry(m, buf, a) == AddWritesFrom(1, a, [mem |-> m, p |-> buf]).mem

(***************************************************************************)
(* LookupKey (db/dbformat.h) and MemTable::Get.                            *)
(***************************************************************************)
PackSequenceAndType(seq, t) == U64Or(U64Shl8(seq), t)

\* LookupKey::memtable_key(): varint32 length, user key, tag.
MemtableKey(k, seq) ==
  EncodeVarint32(Len(k) + 8) \o k
    \o EncodeFixed64(PackSequenceAndType(seq, kValueTypeForSeek))

\* What the caller's value and status hold before the call.
ValueIn == <<63>>
StatusIn == "OK"

\* A seek that starts from the first entry of the index.
GetSeekFirst(list, m, k, seq) == IF list = <<>> THEN 0 ELSE list[1]

\* A seek that does not use the sequence number of the lookup.
GetSeekNewest(list, m, k, seq) ==
  CHOOSE node \in {FindGreaterOrEqual(list, m, memkey) :
                     memkey \in {MemtableKey(k, kMaxSequenceNumber)}} : TRUE

\* iter.Seek(memkey.data())
GetSeek(list, m, k, seq) ==
  CHOOSE node \in {FindGreaterOrEqual(list, m, memkey) :
                     memkey \in {MemtableKey(k, seq)}} : TRUE

\* A Get that does not look at the type.
GetEntryNoSwitch(m, node, k) ==
  IF node = 0 THEN [ret |-> FALSE, value |-> ValueIn, s |-> StatusIn]
  ELSE LET entry == At(m, node)
           kl == GetVarint32Ptr(entry, 0, 5)
           v == GetLengthPrefixedSlice(entry, kl.p + kl.value)
       IN IF BytewiseCompare(SliceBytes(entry, Slice(kl.p, kl.value - 8)), k) = 0
            THEN [ret |-> TRUE, value |-> SliceBytes(entry, v), s |-> StatusIn]
            ELSE [ret |-> FALSE, value |-> ValueIn, s |-> StatusIn]

\* A Get that does not check the user key of the entry it found.
GetEntryNoKeyCheck(m, node, k) ==
  IF node = 0 THEN [ret |-> FALSE, value |-> ValueIn, s |-> StatusIn]
  ELSE LET entry == At(m, node)
           kl == GetVarint32Ptr(entry, 0, 5)
           tag == DecodeFixed64(entry, kl.p + kl.value - 8)
           v == GetLengthPrefixedSlice(entry, kl.p + kl.value)
       IN IF U64LowByte(tag) = kTypeValue
            THEN [ret |-> TRUE, value |-> SliceBytes(entry, v), s |-> StatusIn]
            ELSE [ret |-> TRUE, value |-> ValueIn, s |-> "NotFound"]

\* The rest of Get, once the iterator stands at node: what Get returns and
\* what it leaves in *value and *s.
GetEntry(m, node, k) ==
  IF node = 0 THEN [ret |-> FALSE, value |-> ValueIn, s |-> StatusIn]
  ELSE LET entry == At(m, node)
           kl == GetVarint32Ptr(entry, 0, 5)
           key_ptr == kl.p
           key_length == kl.value
       IN IF BytewiseCompare(SliceBytes(entry, Slice(key_ptr, key_length - 8)),
                             k) = 0
            THEN LET tag == DecodeFixed64(entry, key_ptr + key_length - 8)
                 IN CASE U64LowByte(tag) = kTypeValue ->
                           LET v == GetLengthPrefixedSlice(entry, key_ptr + key_length)
                           IN [ret |-> TRUE, value |-> SliceBytes(entry, v),
                               s |-> StatusIn]
                      [] U64LowByte(tag) = kTypeDeletion ->
                           [ret |-> TRUE, value |-> ValueIn, s |-> "NotFound"]
                      [] OTHER ->
                           [ret |-> FALSE, value |-> ValueIn, s |-> StatusIn]
            ELSE [ret |-> FALSE, value |-> ValueIn, s |-> StatusIn]

(***************************************************************************)
(* MemTableIterator.  An iterator is the node it stands at (0: not valid). *)
(***************************************************************************)
\* EncodeKey(scratch, target): the target, length-prefixed.
EncodeKey(target) == EncodeVarint32(Len(target)) \o target

IterValid(node) == node # 0

\* A Seek that does not look at its target.
IterSeekIgnoresTarget(list, m, target) == IF list = <<>> THEN 0 ELSE list[1]

IterSeek(list, m, target) == FindGreaterOrEqual(list, m, EncodeKey(target))

IterSeekToFirst(list) == IF list = <<>> THEN 0 ELSE list[1]

IterSeekToLast(list) == FindLast(list)

\* A Next that stays where it is.
IterNextStays(list, node) == node

IterNext(list, node) == SkipNext(list, node)

\* A Prev that advances.
IterPrevAsNext(list, m, node) == SkipNext(list, node)

IterPrev(list, m, node) == FindLessThan(list, m, At(m, node))

\* key(): the internal key of the entry.
IterKey(m, node) ==
  SliceBytes(At(m, node), GetLengthPrefixedSlice(At(m, node), 0))

\* value(): the length-prefixed slice that follows the key.
IterValue(m, node) ==
  LET key_slice == GetLengthPrefixedSlice(At(m, node), 0)
  IN SliceBytes(At(m, node),
                GetLengthPrefixedSlice(At(m, node),
                                       key_slice.data + key_slice.size))

(***************************************************************************)
(* Arena (util/arena.h): the bytes allocated, one allocation after the     *)
(* other, and the running total of the bytes allocated.                    *)
(***************************************************************************)
\* Allocate(bytes): the memory with a fresh buffer of uninitialized bytes,
\* each holding fill, at its end.
ArenaAllocate(m, bytes, fill) == m \o [i \in 1..bytes |-> fill]

ArenaUsageAfter(usage, bytes) == usage + bytes

(***************************************************************************)
(* The state.                                                              *)
(***************************************************************************)
VARIABLES
  mem,           \* arena_: the bytes allocated
  memory_usage,  \* arena_: the running total of bytes allocated
  table_,        \* the ordered index: entry pointers in comparator order
  refs_,         \* the reference count
  life,          \* "live", "destroyed" (delete this ran) or "aborted"
  add_,          \* the Add call in flight: next statement, arguments, buf, p
  get_,          \* the Get call in flight or the last one made
  iters,         \* the iterators created: the node each stands at
  added,         \* history: the arguments and buffer of every Add call
  calls,         \* history: the numbers of Ref and Unref calls made
  usage_seen,    \* history: the last two values of ApproximateMemoryUsage
  trav           \* history: the traversal of the first iterator in progress

vars == <<mem, memory_usage, table_, refs_, life, add_, get_,
          iters, added, calls, usage_seen, trav>>

SeqNums == {U64Of(SeqBase + i) : i \in 1..MaxSeq}
\* Lookups are also made below every sequence number in use.
LookupSeqNums == {U64Of(SeqBase + i) : i \in 0..MaxSeq}

\* The Add calls made: a deletion is added with an empty value.
AddInputs ==
  {a \in [s : SeqNums, type : ValueTypes, key : UserKeys, value : Values] :
     a.type = kTypeDeletion => a.value = <<>>}

NoArgs == [s |-> U64Of(0), type |-> kTypeDeletion, key |-> <<>>, value |-> <<>>]
AddIdle == [i |-> 0, a |-> NoArgs, buf |-> 0, p |-> 0]
NoOut == [ret |-> FALSE, value |-> ValueIn, s |-> StatusIn]
GetIdle == [pc |-> "idle", k |-> <<>>, seq |-> U64Of(0), node |-> 0,
            out |-> NoOut, allowed |-> {}]

Range(f) == {f[i] : i \in DOMAIN f}

\* The entries added, as (sequence, type, user key, value) tuples.
Added == {e.a : e \in Range(added)}
\* The entries whose Add has returned.
Committed == IF add_.i = 0 THEN Added ELSE Added \ {add_.a}

\* No traversal was begun.  snap is the part of the index from the starting
\* position on at the time the traversal began, seen the nodes visited.
NoTraversal == [on |-> FALSE, snap |-> <<>>, seen |-> <<>>]

Init ==
  /\ mem = <<>>
  /\ memory_usage = 0
  /\ table_ = <<>>
  /\ refs_ = 0
  /\ life = "live"
  /\ add_ = AddIdle
  /\ get_ = GetIdle
  /\ iters = <<>>
  /\ added = <<>>
  /\ calls = [ref |-> 0, unref |-> 0]
  /\ usage_seen = <<0, 0>>
  /\ trav = NoTraversal

(***************************************************************************)
(* What the claims say Get returns, on the entries as tuples.              *)
(***************************************************************************)
Visible(entries, k, seq) ==
  {e \in entries : e.key = k /\ U64Compare(e.s, seq) <= 0}

Newest(es) == CHOOSE e \in es : \A f \in es : U64Compare(f.s, e.s) <= 0

GetSpec(entries, k, seq) ==
  LET vis == Visible(entries, k, seq)
  IN IF vis = {} THEN [kind |-> "NotFound", value |-> <<>>]
     ELSE IF Newest(vis).type = kTypeValue
       THEN [kind |-> "Found", value |-> Newest(vis).value]
     ELSE [kind |-> "FoundDeletion", value |-> <<>>]

\* The result of a Get call, from what it returned and stored.
Outcome(out) ==
  IF ~out.ret THEN [kind |-> "NotFound", value |-> <<>>]
  ELSE IF out.s = "NotFound" THEN [kind |-> "FoundDeletion", value |-> <<>>]
  ELSE [kind |-> "Found", value |-> out.value]

(***************************************************************************)
(* Add, statement by statement.                                            *)
(***************************************************************************)
\* Lines 102-110: the sizes and arena_.Allocate(encoded_len).
AddBegin(a, limit) ==
  /\ life = "live"
  /\ add_.i = 0
  /\ Len(added) < limit
  /\ \A e \in Range(added) : e.a.s # a.s
  /\ \E fill \in GarbageBytes :
       mem' = ArenaAllocate(mem, EncodedLen(a.key, a.value), fill)
  /\ add_' = [i |-> 1, a |-> a, buf |-> Len(mem) + 1, p |-> Len(mem) + 1]
  /\ memory_usage' = ArenaUsageAfter(memory_usage, EncodedLen(a.key, a.value))
  /\ added' = Append(added, [a |-> a, buf |-> Len(mem) + 1])
  /\ UNCHANGED <<table_, refs_, life, get_, iters, calls, usage_seen,
                 trav>>

AddAdvance == IF add_.i = Len(AddSteps) THEN AddIdle
              ELSE [add_ EXCEPT !.i = add_.i + 1]

\* One writing statement of Add.
AddStatement(step) ==
  /\ life = "live"
  /\ add_.i # 0
  /\ AddSteps[add_.i] = step
  /\ LET st == AddWrite(step, add_.a, [mem |-> mem, p |-> add_.p])
     IN /\ mem' = st.mem
        /\ add_' = [AddAdvance EXCEPT !.p = IF AddAdvance.i = 0 THEN 0 ELSE st.p]
  /\ UNCHANGED <<memory_usage, table_, refs_, life, get_, iters,
                 added, calls, usage_seen,
                 trav>>

AddEncodeKeySize == AddStatement("key_size")
AddCopyKey == AddStatement("key")
AddEncodeTag == AddStatement("tag")
AddEncodeValueSize == AddStatement("val_size")
AddCopyValue == AddStatement("value")

\* Line 127: table_.Insert(buf).
AddInsert ==
  /\ life = "live"
  /\ add_.i # 0
  /\ AddSteps[add_.i] = "insert"
  /\ table_' = SkipInsert(table_, mem, add_.buf)
  /\ add_' = AddAdvance
  /\ UNCHANGED <<mem, memory_usage, refs_, life, get_, iters,
                 added, calls, usage_seen,
                 trav>>

\* A whole Add call.
Add(a, limit) ==
  /\ life = "live"
  /\ add_.i = 0
  /\ get_.pc = "idle"
  /\ Len(added) < limit
  /\ \A e \in Range(added) : e.a.s # a.s
  /\ \E fill \in GarbageBytes :
       mem' = EncodeEntry(ArenaAllocate(mem, EncodedLen(a.key, a.value), fill),
                          Len(mem) + 1, a)
  /\ memory_usage' = ArenaUsageAfter(memory_usage, EncodedLen(a.key, a.value))
  /\ table_' = SkipInsert(table_, mem', Len(mem) + 1)
  /\ added' = Append(added, [a |-> a, buf |-> Len(mem) + 1])
  /\ UNCHANGED <<refs_, life, add_, get_, iters, calls, usage_seen,
                 trav>>

(***************************************************************************)
(* Get: the seek, then the decoding of the entry found.  The caller reads  *)
(* what a call returned (GetReturn) before it makes its next call.         *)
(***************************************************************************)
\* Lines 139-144.
GetBegin(k, seq) ==
  /\ life = "live"
  /\ get_.pc = "idle"
  /\ get_' = [pc |-> "seek", k |-> k, seq |-> seq,
              node |-> GetSeek(table_, mem, k, seq), out |-> NoOut,
              allowed |-> {GetSpec(Committed, k, seq), GetSpec(Added, k, seq)}]
  /\ UNCHANGED <<mem, memory_usage, table_, refs_, life, add_,
                 iters, added, calls, usage_seen,
                 trav>>

\* Lines 146-177.
GetFinish ==
  /\ life = "live"
  /\ get_.pc = "seek"
  /\ get_' = [get_ EXCEPT !.pc = "done", !.out = GetEntry(mem, get_.node, get_.k)]
  /\ UNCHANGED <<mem, memory_usage, table_, refs_, life, add_,
                 iters, added, calls, usage_seen,
                 trav>>

\* A Get that takes a reference to the table and keeps it.
GetKeepsReference(k, seq) ==
  /\ life = "live"
  /\ get_.pc = "idle"
  /\ \E node \in {GetSeek(table_, mem, k, seq)} :
       get_' = [pc |-> "done", k |-> k, seq |-> seq, node |-> node,
                out |-> GetEntry(mem, node, k),
                allowed |-> {GetSpec(Committed, k, seq), GetSpec(Added, k, seq)}]
  /\ refs_' = refs_ + 1
  /\ UNCHANGED <<mem, memory_usage, table_, life, add_,
                 iters, added, calls, usage_seen,
                 trav>>

\* A whole Get call.
Get(k, seq) ==
  /\ life = "live"
  /\ get_.pc = "idle"
  /\ \E node \in {GetSeek(table_, mem, k, seq)} :
       get_' = [pc |-> "done", k |-> k, seq |-> seq, node |-> node,
                out |-> GetEntry(mem, node, k),
                allowed |-> {GetSpec(Committed, k, seq), GetSpec(Added, k, seq)}]
  /\ UNCHANGED <<mem, memory_usage, table_, refs_, life, add_,
                 iters, added, calls, usage_seen,
                 trav>>

GetReturn ==
  /\ get_.pc = "done"
  /\ get_' = GetIdle
  /\ UNCHANGED <<mem, memory_usage, table_, refs_, life, add_,
                 iters, added, calls, usage_seen,
                 trav>>

(***************************************************************************)
(* Spec: the calls Add and Get made one after the other on a live table.   *)
(***************************************************************************)
Next ==
  \/ \E a \in AddInputs : Add(a, MaxAdds)
  \/ \E k \in UserKeys, seq \in LookupSeqNums : Get(k, seq)
  \/ GetReturn

Spec == Init /\ [][Next]_vars

(***************************************************************************)
(* The iterator's operations, on the it-th iterator.                       *)
(***************************************************************************)
\* A NewIterator that takes a reference to the table for the iterator.
NewIteratorTakesReference(limit) ==
  /\ life = "live"
  /\ Len(iters) < limit
  /\ iters' = Append(iters, 0)
  /\ refs_' = refs_ + 1
  /\ UNCHANGED <<mem, memory_usage, table_, life, add_, get_, added,
                 calls, usage_seen,
                 trav>>

\* Line 90: a new iterator stands at no node.
NewIterator(limit) ==
  /\ life = "live"
  /\ Len(iters) < limit
  /\ iters' = Append(iters, 0)
  /\ UNCHANGED <<mem, memory_usage, table_, refs_, life, add_, get_, added,
                 calls, usage_seen,
                 trav>>

MoveIterator(it, node) ==
  /\ life = "live"
  /\ iters' = [iters EXCEPT ![it] = node]
  /\ UNCHANGED <<mem, memory_usage, table_, refs_, life, add_, get_, added,
                 calls, usage_seen,
                 trav>>

SeekToFirst(it) == MoveIterator(it, IterSeekToFirst(table_))

SeekToLast(it) == MoveIterator(it, IterSeekToLast(table_))

Seek(it, target) == MoveIterator(it, IterSeek(table_, mem, target))

\* Next and Prev require a valid iterator.
IteratorNext(it) ==
  /\ IterValid(iters[it])
  /\ MoveIterator(it, IterNext(table_, iters[it]))

IteratorPrev(it) ==
  /\ IterValid(iters[it])
  /\ MoveIterator(it, IterPrev(table_, mem, iters[it]))

\* The internal key of a user key, a sequence number and a type.
InternalKey(k, seq, t) == k \o EncodeFixed64(PackSequenceAndType(seq, t))

\* The seek targets: for each user key, the target that is before and the
\* target that is after every entry of the key.
SeekTargets ==
  {InternalKey(k, kMaxSequenceNumber, kValueTypeForSeek) : k \in UserKeys}
    \cup {InternalKey(k, U64Of(0), kTypeDeletion) : k \in UserKeys}

(***************************************************************************)
(* SpecIter: Add calls and the operations of one iterator.                 *)
(***************************************************************************)
NextIter ==
  \/ \E a \in AddInputs : Add(a, MaxAdds)
  \/ NewIterator(1)
  \/ \E it \in DOMAIN iters : SeekToFirst(it)
  \/ \E it \in DOMAIN iters : SeekToLast(it)
  \/ \E it \in DOMAIN iters, target \in SeekTargets : Seek(it, target)
  \/ \E it \in DOMAIN iters : IteratorNext(it)
  \/ \E it \in DOMAIN iters : IteratorPrev(it)

SpecIter == Init /\ [][NextIter]_vars

(***************************************************************************)
(* SpecConc: one writer, whose Add runs statement by statement, and one    *)
(* reader, whose Get runs in two steps, without any lock.                  *)
(***************************************************************************)
ConcKeys == {<<97>>}
ConcInputs == {a \in AddInputs : a.key \in ConcKeys}

NextConc ==
  \/ \E a \in ConcInputs : AddBegin(a, MaxAdds)
  \/ AddEncodeKeySize
  \/ AddCopyKey
  \/ AddEncodeTag
  \/ AddEncodeValueSize
  \/ AddCopyValue
  \/ AddInsert
  \/ \E k \in ConcKeys, seq \in LookupSeqNums : GetBegin(k, seq)
  \/ GetFinish
  \/ GetReturn

SpecConc == Init /\ [][NextConc]_vars

(***************************************************************************)
(* Ref and Unref.                                                          *)
(***************************************************************************)
\* Line 40.
Ref ==
  /\ life = "live"
  /\ calls.ref < MaxRefs
  /\ refs_' = refs_ + 1
  /\ calls' = [calls EXCEPT !.ref = calls.ref + 1]
  /\ UNCHANGED <<mem, memory_usage, table_, life, add_, get_, iters, added,
                 usage_seen,
                 trav>>

\* A test that lets a count of zero live.
UnrefDeletesBelowZero(r) == r < 0

\* A test that deletes the table while one reference is left.
UnrefDeletesAtOne(r) == r <= 1

\* Line 47: if (refs_ <= 0)
UnrefDeletes(r) == r <= 0

\* Lines 43-50.  When the decrement leaves the count negative, a build with
\* assertions aborts at line 45 and a build without them goes on.
Unref ==
  /\ life = "live"
  /\ refs_' = refs_ - 1
  /\ calls' = [calls EXCEPT !.unref = calls.unref + 1]
  /\ \/ /\ refs_ - 1 < 0
        /\ life' = "aborted"
     \/ /\ UnrefDeletes(refs_ - 1)
        /\ life' = "destroyed"
     \/ /\ refs_ - 1 >= 0
        /\ ~UnrefDeletes(refs_ - 1)
        /\ life' = "live"
  /\ UNCHANGED <<mem, memory_usage, table_, add_, get_, iters, added,
                 usage_seen,
                 trav>>

RefInputs == {a \in AddInputs : a.key = <<97>> /\ a.type = kTypeValue}

(***************************************************************************)
(* SpecRef: the reference count, with Add calls and iterators.             *)
(***************************************************************************)
NextRef ==
  \/ Ref
  \/ Unref
  \/ \E a \in RefInputs : Add(a, 1)
  \/ NewIterator(MaxIters)
  \/ \E it \in DOMAIN iters : SeekToFirst(it)
  \/ \E it \in DOMAIN iters : SeekToLast(it)
  \/ \E it \in DOMAIN iters, target \in SeekTargets : Seek(it, target)
  \/ \E it \in DOMAIN iters : IteratorNext(it)
  \/ \E it \in DOMAIN iters : IteratorPrev(it)

SpecRef == Init /\ [][NextRef]_vars

(***************************************************************************)
(* ApproximateMemoryUsage.                                                 *)
(***************************************************************************)
\* A usage that counts the last allocation only.
ApproximateMemoryUsageLast ==
  IF added = <<>> THEN 0
  ELSE EncodedLen(added[Len(added)].a.key, added[Len(added)].a.value)

\* Line 31.
ApproximateMemoryUsage == memory_usage

ReadUsage ==
  /\ life = "live"
  /\ usage_seen' = <<usage_seen[2], ApproximateMemoryUsage>>
  /\ UNCHANGED <<mem, memory_usage, table_, refs_, life, add_, get_, iters,
                 added, calls,
                 trav>>

MemInputs == {a \in AddInputs : a.type = kTypeValue /\ a.key \in {<<>>, <<97>>}}

(***************************************************************************)
(* SpecMem: ApproximateMemoryUsage read while Add runs statement by        *)
(* statement.                                                              *)
(***************************************************************************)
NextMem ==
  \/ \E a \in MemInputs : AddBegin(a, MaxAdds)
  \/ AddEncodeKeySize
  \/ AddCopyKey
  \/ AddEncodeTag
  \/ AddEncodeValueSize
  \/ AddCopyValue
  \/ AddInsert
  \/ ReadUsage

SpecMem == Init /\ [][NextMem]_vars

(***************************************************************************)
(* SpecCodec: one entry, drawn from keys and values long enough for a two  *)
(* byte length and from sequence numbers across the 56 bits, then read     *)
(* back through an iterator and through Get.                               *)
(***************************************************************************)
LongBytes(n, b) == [i \in 1..n |-> b]

CodecKeys == {<<>>, <<97>>, <<0, 255>>, LongBytes(120, 107)}
CodecValues == {<<>>, <<120>>, LongBytes(130, 118)}
CodecSeqNums ==
  {U64Of(0), U64Of(1), U64Of(255), U64Of(256), U64Of(65535), U64Of(65536),
   <<0, 0, 0, 128>>, kMaxSequenceNumber}
CodecInputs ==
  [s : CodecSeqNums, type : ValueTypes, key : CodecKeys, value : CodecValues]

NextCodec ==
  \/ \E a \in CodecInputs : Add(a, 1)
  \/ \E e \in Range(added) : Get(e.a.key, e.a.s)
  \/ GetReturn
  \/ NewIterator(1)
  \/ \E it \in DOMAIN iters : SeekToFirst(it)

SpecCodec == Init /\ [][NextCodec]_vars

(***************************************************************************)
(* The claims.                                                             *)
(***************************************************************************)
\* The tag of an internal key, and the two fields packed in it.
KeyTag(ikey) == DecodeFixed64(ikey, Len(ikey) - 8)
KeySequence(ikey) == U64Shr8(KeyTag(ikey))
KeyType(ikey) == U64LowByte(KeyTag(ikey))

\* Sequence number a is at most b.
SeqLeq(a, b) == U64Compare(a, b) <= 0

\* What a finished Get call reported.
GotFound(v) == get_.out.ret /\ get_.out.s = StatusIn /\ get_.out.value = v
GotDeletion == get_.out.ret /\ get_.out.s = "NotFound" /\ get_.out.value = ValueIn
GotNotFound == ~get_.out.ret /\ get_.out.s = StatusIn /\ get_.out.value = ValueIn

\* e is the entry for user key k with the greatest sequence number that is
\* at most seq.
NewestVisible(e, k, seq) ==
  /\ e \in Added
  /\ e.key = k
  /\ SeqLeq(e.s, seq)
  /\ \A f \in Added : f.key = k /\ SeqLeq(f.s, seq) => SeqLeq(f.s, e.s)

\* C1: after Add calls with distinct sequence numbers, made in any order,
\* Get(lookup(k, S)) returns Found(v) if and only if the table holds an
\* entry for k with sequence <= S and the one with the greatest such
\* sequence is a Value entry whose value is v.
C1_NewestVisibleValue ==
  get_.pc = "done" =>
    /\ \A v \in Values \cup {ValueIn} :
         GotFound(v) <=>
           \E e \in Added : /\ NewestVisible(e, get_.k, get_.seq)
                            /\ e.type = kTypeValue
                            /\ e.value = v
    /\ get_.out.ret =>
         /\ ExtractUserKey(IterKey(mem, get_.node)) = get_.k
         /\ SeqLeq(KeySequence(IterKey(mem, get_.node)), get_.seq)

\* Get returned the newer of two visible values of a key, the newer one
\* having been added first.
C1_Witness ==
  /\ get_.pc = "done"
  /\ \E e, f \in Range(added) :
       /\ e.a.key = get_.k /\ f.a.key = get_.k
       /\ e.buf < f.buf
       /\ ~SeqLeq(e.a.s, f.a.s)
       /\ SeqLeq(e.a.s, get_.seq)
       /\ e.a.type = kTypeValue /\ f.a.type = kTypeValue
       /\ e.a.value # f.a.value
       /\ GotFound(e.a.value)

\* C2: when the entry for k with the greatest sequence <= S is a Deletion,
\* Get returns true and stores a NotFound status, and does not return an
\* older value; a Get at a sequence below the tombstone's, where the newest
\* visible entry is a Value, still returns that value.
C2_TombstoneShadows ==
  get_.pc = "done" =>
    \A e \in Added :
      NewestVisible(e, get_.k, get_.seq) =>
        /\ e.type = kTypeDeletion => GotDeletion
        /\ (/\ e.type = kTypeValue
            /\ \E d \in Added : /\ d.key = get_.k
                                /\ d.type = kTypeDeletion
                                /\ ~SeqLeq(d.s, get_.seq))
             => GotFound(e.value)

\* Get met a tombstone that shadows an older, non-empty value.
C2_Witness ==
  /\ get_.pc = "done"
  /\ GotDeletion
  /\ \E d, e \in Added :
       /\ NewestVisible(d, get_.k, get_.seq)
       /\ d.type = kTypeDeletion
       /\ e.key = get_.k /\ e.type = kTypeValue /\ e.value # <<>>
       /\ ~SeqLeq(d.s, e.s)

RECURSIVE ForwardFrom(_, _, _)
ForwardFrom(list, node, fuel) ==
  IF ~IterValid(node) \/ fuel = 0 THEN <<>>
  ELSE <<node>> \o ForwardFrom(list, IterNext(list, node), fuel - 1)

\* The nodes an iterator visits from node on with Prev.
RECURSIVE BackwardFrom(_, _, _, _)
BackwardFrom(list, m, node, fuel) ==
  IF ~IterValid(node) \/ fuel = 0 THEN <<>>
  ELSE <<node>> \o BackwardFrom(list, m, IterPrev(list, m, node), fuel - 1)

\* SeekToFirst, then Next until the iterator is not valid.
ForwardTraversal == ForwardFrom(table_, IterSeekToFirst(table_), Len(table_) + 1)

\* SeekToLast, then Prev until the iterator is not valid.
BackwardTraversal ==
  BackwardFrom(table_, mem, IterSeekToLast(table_), Len(table_) + 1)

\* What key() and value() give at a node.
Visited(node) == [key |-> IterKey(mem, node), value |-> IterValue(mem, node)]

\* Internal key a comes before internal key b: a smaller user key, or the
\* same user key and a greater sequence number.
StrictlyBefore(a, b) ==
  \/ BytewiseCompare(ExtractUserKey(a), ExtractUserKey(b)) < 0
  \/ /\ ExtractUserKey(a) = ExtractUserKey(b)
     /\ U64Compare(KeySequence(a), KeySequence(b)) > 0

\* C4: in whatever order the Add calls were made, a forward traversal
\* visits every entry of the table, with user keys ascending and, for equal
\* user keys, strictly decreasing sequence numbers.
C4_ForwardOrdered ==
  \A forward \in {ForwardTraversal} :
    /\ Len(forward) = Len(added)
    /\ \A i, j \in 1..Len(forward) :
         i < j => StrictlyBefore(IterKey(mem, forward[i]),
                                 IterKey(mem, forward[j]))

\* An iterator has been moved to the last entry of a table in which an
\* entry added later comes before an entry of the same user key added
\* earlier.
C4_Witness ==
  /\ Len(table_) >= 2
  /\ iters # <<>>
  /\ iters[1] = table_[Len(table_)]
  /\ \E i, j \in 1..Len(table_) :
       /\ i < j
       /\ table_[i] > table_[j]
       /\ ExtractUserKey(IterKey(mem, table_[i]))
            = ExtractUserKey(IterKey(mem, table_[j]))

\* C5: a Get that runs while an Add is in flight returns what it would
\* return on the table without the new entry or on the table with the new
\* entry fully inserted.
C5_GetSeesWholeEntries ==
  get_.pc = "done" => Outcome(get_.out) \in get_.allowed

\* A Get began and finished while an Add of an entry it could see was in
\* flight, the two allowed results being different.
C5_Witness ==
  /\ get_.pc = "done"
  /\ add_.i > 1
  /\ add_.a.key = get_.k
  /\ SeqLeq(add_.a.s, get_.seq)
  /\ Cardinality(get_.allowed) = 2

\* C6: once Ref has been called, the table is live exactly while the count
\* is positive, the count is the number of Ref calls less the number of
\* Unref calls, the table is destroyed when the count is back at zero, and
\* only an Unref call ends the life of the table.
C6_RefLifecycle ==
  /\ [](calls.ref >= 1 =>
          /\ life \in {"live", "destroyed"}
          /\ refs_ = calls.ref - calls.unref
          /\ life = "live" <=> refs_ > 0
          /\ life = "destroyed" <=> refs_ = 0)
  /\ [][life # life' => life = "live" /\ calls'.unref = calls.unref + 1]_vars

\* Two Ref calls and two Unref calls have been made and the table is gone.
C6_Witness ==
  /\ life = "destroyed"
  /\ calls.ref = 2
  /\ calls.unref = 2

EntryAt(m, node) ==
  [key |-> ExtractUserKey(IterKey(m, node)),
   sequence |-> KeySequence(IterKey(m, node)),
   type |-> KeyType(IterKey(m, node)),
   value |-> IterValue(m, node)]

\* C8: an Add call adds exactly one entry to the index; every entry of the
\* index is in it after every step, at the same address, in the same order
\* and with the same user key, sequence number, type and value; no other
\* call changes the index.
C8_AppendOnly ==
  [][/\ \A i \in 1..Len(table_) :
          /\ table_[i] \in Range(table_')
          /\ EntryAt(mem', table_[i]) = EntryAt(mem, table_[i])
          /\ \A j \in 1..Len(table_) :
               i < j => \E x, y \in 1..Len(table_') :
                          x < y /\ table_'[x] = table_[i] /\ table_'[y] = table_[j]
     /\ Len(added') = Len(added) + 1 => Len(table_') = Len(table_) + 1
     /\ Len(added') = Len(added) => table_' = table_]_vars

\* The table holds two entries, the second of which was added in front of
\* the first.
C8_Witness ==
  /\ Len(table_) = 2
  /\ table_[1] > table_[2]
  /\ IterValue(mem, table_[2]) # <<>>

Reverse(q) == [i \in 1..Len(q) |-> q[Len(q) + 1 - i]]

\* C9: SeekToLast followed by Prev until the iterator is not valid visits
\* the entries that SeekToFirst followed by Next visits, in reverse order.
C9_BackwardIsReverse ==
  \A forward \in {ForwardTraversal} :
    \A backward \in {BackwardTraversal} :
      /\ Len(backward) = Len(forward)
      /\ backward = Reverse(forward)
      /\ \A i \in 1..Len(backward) :
           Visited(backward[i]) = Visited(forward[Len(forward) + 1 - i])

\* An iterator has been moved back to the first of two entries.
C9_Witness ==
  /\ Len(table_) >= 2
  /\ iters # <<>>
  /\ iters[1] = table_[1]
  /\ Len(BackwardTraversal) >= 2
  /\ BackwardTraversal[1] # BackwardTraversal[2]

\* C10: a later read of ApproximateMemoryUsage never returns less than an
\* earlier read, also while an Add is in flight.
C10_UsageMonotonic == usage_seen[1] <= usage_seen[2]

\* Two reads, the second greater, made while the second Add is in flight.
C10_Witness ==
  /\ 0 < usage_seen[1]
  /\ usage_seen[1] < usage_seen[2]
  /\ add_.i > 1
  /\ Len(added) = 2

\* C11: the value ApproximateMemoryUsage returns after an Add call is
\* strictly greater than the value it returns before the call, whatever the
\* size of the entry, and no step in between makes it smaller; so a read
\* after one or more Add calls is strictly greater than a read before the
\* first of them.
C11_UsageStrictlyIncreases ==
  [][/\ ApproximateMemoryUsage' >= ApproximateMemoryUsage
     /\ Len(added') > Len(added) =>
          ApproximateMemoryUsage' > ApproximateMemoryUsage]_vars

\* A read before and a read after the Add of an entry with an empty user
\* key and an empty value, made on a table that held an entry already.
C11_Witness ==
  /\ add_.i = 0
  /\ Len(added) = 2
  /\ added[2].a.key = <<>>
  /\ added[2].a.value = <<>>
  /\ usage_seen[2] = ApproximateMemoryUsage
  /\ usage_seen[1] = ApproximateMemoryUsage - EncodedLen(<<>>, <<>>)
  /\ usage_seen[1] > 0

\* The seek targets of a user key: the one with a zero sequence number and a
\* zero type, and the one with the greatest sequence number.
ZeroTarget(k) == InternalKey(k, U64Of(0), kTypeDeletion)
MaxTarget(k) == InternalKey(k, kMaxSequenceNumber, kValueTypeForSeek)

\* node is the first entry of the index whose internal key is at or after
\* target, or the null node when there is none.
FirstAtOrAfter(node, target) ==
  \E n \in 1..(Len(table_) + 1) :
    /\ node = IF n > Len(table_) THEN 0 ELSE table_[n]
    /\ \A i \in 1..Len(table_) :
         i < n <=> InternalKeyCompare(IterKey(mem, table_[i]), target) < 0

\* node is the entry of user key k with the greatest sequence number.
NewestVersion(node, k) ==
  /\ IterValid(node)
  /\ ExtractUserKey(IterKey(mem, node)) = k
  /\ \A e \in Added : e.key = k => SeqLeq(e.s, KeySequence(IterKey(mem, node)))

\* C12 as stated: a seek with the target built from a user key and a zero
\* sequence number and zero type stands at the first entry at or after the
\* target, and that entry is the newest version of the user key whenever the
\* table holds an entry for it.
C12_ZeroTargetFindsNewest ==
  \A k \in UserKeys :
    \A node \in {IterSeek(table_, mem, ZeroTarget(k))} :
      /\ FirstAtOrAfter(node, ZeroTarget(k))
      /\ (\E e \in Added : e.key = k) => NewestVersion(node, k)

\* C12, amended: a seek stands at the first entry whose internal key is at
\* or after the target.  With the target built from a user key and a zero
\* sequence number and zero type, that entry is after every version of the
\* user key that has a sequence number or a type other than zero (it is an
\* entry of a greater user key, the target itself, or none); with the target built
\* from the user key and the greatest sequence number, it is the newest
\* version of the user key whenever the table holds an entry for it.
C12_SeekFirstAtOrAfter ==
  /\ \A target \in SeekTargets :
       \A node \in {IterSeek(table_, mem, target)} : FirstAtOrAfter(node, target)
  /\ \A k \in UserKeys :
       /\ \A node \in {IterSeek(table_, mem, ZeroTarget(k))} :
            \/ ~IterValid(node)
            \/ BytewiseCompare(k, ExtractUserKey(IterKey(mem, node))) < 0
            \/ IterKey(mem, node) = ZeroTarget(k)
       /\ (\E e \in Added : e.key = k) =>
            \A node \in {IterSeek(table_, mem, MaxTarget(k))} :
              NewestVersion(node, k)

\* The table holds two versions of a user key, added newest first, and an
\* iterator moved by a seek stands at the newest of them, which is what the
\* seek with the greatest sequence number finds and the seek with the zero
\* sequence number does not.
C12_Witness ==
  /\ Len(table_) = 2
  /\ iters # <<>>
  /\ \E k \in UserKeys :
       /\ \A e \in Added : e.key = k
       /\ added[1].buf = table_[1]
       /\ iters[1] = IterSeek(table_, mem, MaxTarget(k))
       /\ iters[1] = table_[1]
       /\ IterSeek(table_, mem, ZeroTarget(k)) = 0

\* C13: a Get call changes nothing of the table: the entries of the index and
\* their order, the bytes of the arena and its usage, and the reference
\* count are after the call what they were before it, whatever it returns.
C13_GetMutatesNothing ==
  [][(get_.pc = "idle" /\ get_'.pc = "done") =>
       /\ table_' = table_
       /\ mem' = mem
       /\ memory_usage' = memory_usage
       /\ refs_' = refs_
       /\ life' = life
       /\ ForwardTraversal' = ForwardTraversal]_vars

\* A Get call has returned a value on a table of two entries, the other
\* entry being a deletion of another key.
C13_Witness ==
  /\ get_.pc = "done"
  /\ Len(table_) = 2
  /\ \E v \in Values : v # <<>> /\ GotFound(v)
  /\ \E e \in Added : e.type = kTypeDeletion /\ e.key # get_.k

\* C14: NewIterator and every operation of an iterator leave the reference
\* count and the life of the table as they were, and the Unref that brings
\* the count to zero destroys the table whatever iterators exist.
C14_IteratorsBorrow ==
  /\ [][iters' # iters => refs_' = refs_ /\ life' = life]_vars
  /\ [][(life = "live" /\ refs_' = 0 /\ refs_ = 1) => life' = "destroyed"]_vars
  /\ [](calls.ref >= 1 => refs_ = calls.ref - calls.unref)

\* The table was destroyed by the Unref matching its only Ref while two
\* iterators existed, one of them standing at an entry.
C14_Witness ==
  /\ life = "destroyed"
  /\ calls.ref = 1
  /\ calls.unref = 1
  /\ Len(iters) = 2
  /\ IterValid(iters[1])
  /\ ~IterValid(iters[2])

\* The bytes of the entry of an Add call, field after field.
EntryBytes(a) ==
  EncodeVarint32(Len(a.key) + 8) \o a.key
    \o EncodeFixed64(PackSequenceAndType(a.s, a.type))
    \o EncodeVarint32(Len(a.value)) \o a.value

\* The buffer of e lies in the memory allocated and holds all bytes of its entry.
WhollyWritten(m, e) ==
  /\ e.buf >= 1
  /\ e.buf + Len(EntryBytes(e.a)) - 1 <= Len(m)
  /\ SubSeq(m, e.buf, e.buf + Len(EntryBytes(e.a)) - 1) = EntryBytes(e.a)

\* C15: in every state, the intermediate states of an Add in flight
\* included, every pointer in the index is the buffer of an Add call, the
\* buffer is allocated and every byte of the entry (key length, user key,
\* tag, value length, value) is written; the step that inserts a pointer
\* starts from a state in which the last byte is written already.
C15_AllocateEncodeInsert ==
  /\ [](/\ \A i \in 1..Len(table_) : \E e \in Range(added) : e.buf = table_[i]
        /\ \A e \in Range(added) :
             e.buf \in Range(table_) => WhollyWritten(mem, e))
  /\ [][table_' # table_ =>
          \E e \in Range(added) :
            /\ e.buf \notin Range(table_)
            /\ Range(table_') = Range(table_) \cup {e.buf}
            /\ WhollyWritten(mem, e)]_vars

\* The second Add has written its last byte and has not inserted yet, and
\* a Get is between its seek and its decoding.
C15_Witness ==
  /\ add_.i # 0
  /\ AddSteps[add_.i] = "insert"
  /\ Len(added) = 2
  /\ Len(table_) = 1
  /\ add_.a.value # <<>>
  /\ WhollyWritten(mem, added[2])
  /\ get_.pc = "seek"

(***************************************************************************)
(* A forward traversal by the first iterator, with its history: a seek,    *)
(* then Next while the iterator is valid.  The reader begins a traversal   *)
(* when none is in progress.                                               *)
(***************************************************************************)
\* The part of the index from node on.
IndexFrom(list, node) ==
  IF node = 0 THEN <<>> ELSE SubSeq(list, IndexOf(list, node), Len(list))

TraverseFrom(node) ==
  /\ life = "live"
  /\ iters # <<>>
  /\ ~trav.on \/ ~IterValid(iters[1])
  /\ iters' = [iters EXCEPT ![1] = node]
  /\ trav' = [on |-> TRUE, snap |-> IndexFrom(table_, node),
              seen |-> IF IterValid(node) THEN <<node>> ELSE <<>>]
  /\ UNCHANGED <<mem, memory_usage, table_, refs_, life, add_, get_, added,
                 calls, usage_seen>>

\* Line 72, as the start of a traversal.
TraverseSeekToFirst == TraverseFrom(IterSeekToFirst(table_))

\* Line 71, as the start of a traversal.
TraverseSeek(target) == TraverseFrom(IterSeek(table_, mem, target))

\* Line 74, in a traversal.
TraverseNext ==
  /\ life = "live"
  /\ trav.on
  /\ iters # <<>>
  /\ IterValid(iters[1])
  /\ \E n \in {IterNext(table_, iters[1])} :
       /\ iters' = [iters EXCEPT ![1] = n]
       /\ trav' = [trav EXCEPT !.seen = IF IterValid(n) THEN Append(@, n) ELSE @]
  /\ UNCHANGED <<mem, memory_usage, table_, refs_, life, add_, get_, added,
                 calls, usage_seen>>

TravInputs == {a \in AddInputs : a.type = kTypeValue /\ a.value = <<120>>}

(***************************************************************************)
(* SpecTrav: one writer, whose Add runs statement by statement, and one    *)
(* reader that traverses the table.  The reader goes on calling Next while *)
(* its iterator is valid.                                                  *)
(***************************************************************************)
NextTrav ==
  \/ \E a \in TravInputs : AddBegin(a, MaxAdds)
  \/ AddEncodeKeySize
  \/ AddCopyKey
  \/ AddEncodeTag
  \/ AddEncodeValueSize
  \/ AddCopyValue
  \/ AddInsert
  \/ NewIterator(1)
  \/ TraverseSeekToFirst
  \/ \E k \in UserKeys : TraverseSeek(MaxTarget(k))
  \/ TraverseNext

SpecTrav == Init /\ [][NextTrav]_vars /\ WF_vars(TraverseNext)

\* The nodes of q are in the order of the entry comparator, none twice.
InComparatorOrder(q) ==
  \A i, j \in 1..Len(q) :
    i < j => StrictlyBefore(IterKey(mem, q[i]), IterKey(mem, q[j]))

\* C16: in a forward traversal interleaved with the statements of the Add
\* calls of one writer, the entries visited are entries of the index, each
\* visited once and in comparator order; every entry that was in the index
\* at or after the starting position when the traversal began has been
\* visited once the iterator has passed it, and all of them when the
\* traversal has ended; and every traversal ends.
C16_TraversalWithAdds ==
  /\ [](trav.on =>
          /\ \A i \in 1..Len(trav.seen) : trav.seen[i] \in Range(table_)
          /\ InComparatorOrder(trav.seen)
          /\ \A i \in 1..Len(trav.snap) :
               \/ trav.snap[i] \in Range(trav.seen)
               \/ /\ IterValid(iters[1])
                  /\ StrictlyBefore(IterKey(mem, iters[1]),
                                    IterKey(mem, trav.snap[i]))
          /\ IterValid(iters[1]) =>
               trav.seen # <<>> /\ trav.seen[Len(trav.seen)] = iters[1])
  /\ (trav.on ~> (trav.on /\ ~IterValid(iters[1])))

\* A traversal that began on a table of one entry has ended after it
\* visited two: the entry added during the traversal came after the
\* position of the iterator.
C16_Witness ==
  /\ trav.on
  /\ ~IterValid(iters[1])
  /\ Len(trav.snap) = 1
  /\ Len(trav.seen) = 2
  /\ add_.i = 0

\* C17 as stated: for every sequence of Ref and Unref calls made on a live
\* table from its construction on, the count is not negative after the
\* decrement in Unref (the assertion of Unref holds) and the count is zero
\* whenever the destructor runs.
C17_AssertionsAlwaysHold ==
  /\ refs_ >= 0
  /\ life # "aborted"
  /\ life = "destroyed" => refs_ = 0

\* C17, amended: for every sequence of Ref and Unref calls made on a live
\* table that begins with a Ref call, the count is not negative after the
\* decrement in Unref and is zero whenever the destructor runs.  An Unref
\* call made before any Ref call leaves the count at -1: the assertion of
\* Unref fails, or, where assertions are compiled out, the destructor runs
\* with the count at -1.
C17_AssertionsHoldAfterRef ==
  /\ calls.ref >= 1 =>
       /\ refs_ >= 0
       /\ life # "aborted"
       /\ life = "destroyed" => refs_ = 0
  /\ (calls.ref = 0 /\ calls.unref >= 1) =>
       /\ calls.unref = 1
       /\ refs_ = -1
       /\ life \in {"aborted", "destroyed"}

\* Three Ref calls and three Unref calls were made, and the destructor ran
\* with the count at zero.
C17_Witness ==
  /\ life = "destroyed"
  /\ calls.ref = 3
  /\ calls.unref = 3
  /\ refs_ = 0

\* What Get(lookup(k, seq)) returns on the index list in the memory m.
GetResult(list, m, k, seq) ==
  CHOOSE r \in {Outcome(GetEntry(m, node, k)) :
                  node \in {GetSeek(list, m, k, seq)}} : TRUE

\* C18: an Add with a sequence number greater than S leaves the result of
\* Get(lookup(k, S)) as it was, for every user key k, whether the Add
\* writes k or another key; so the result of a read at S is the same before
\* and after any number of such Adds.
C18_SnapshotStable ==
  [][Len(added') = Len(added) + 1 =>
       \A k \in UserKeys, S \in LookupSeqNums :
         ~SeqLeq(added'[Len(added')].a.s, S) =>
           GetResult(table_', mem', k, S) = GetResult(table_, mem, k, S)]_vars

\* A Get at S returned the value of the entry added first, after a second
\* Add wrote another value for the same key at a sequence number above S.
C18_Witness ==
  /\ get_.pc = "done"
  /\ Len(added) = 2
  /\ added[1].a.key = get_.k
  /\ added[2].a.key = get_.k
  /\ added[1].a.s = get_.seq
  /\ ~SeqLeq(added[2].a.s, get_.seq)
  /\ added[2].a.type = kTypeValue
  /\ added[1].a.value # added[2].a.value
  /\ GotFound(added[1].a.value)

\* The memory and the index after Add(a) on the memory and the index of t.
AddTo(t, a) ==
  CHOOSE r \in {[mem |-> m, table |-> SkipInsert(t.table, m, Len(t.mem) + 1)] :
                  m \in {EncodeEntry(
                           ArenaAllocate(t.mem, EncodedLen(a.key, a.value), 0),
                           Len(t.mem) + 1, a)}} : TRUE

\* The table after the Add calls made so far, made in the order given.
RECURSIVE ReplayFrom(_, _, _)
ReplayFrom(order, i, t) ==
  IF i > Len(order) THEN t
  ELSE CHOOSE r \in {ReplayFrom(order, i + 1, t2) :
                       t2 \in {AddTo(t, added[order[i]].a)}} : TRUE

Replay(order) == ReplayFrom(order, 1, [mem |-> <<>>, table |-> <<>>])

\* The orders in which n calls can be made.
Orders(n) == {f \in [1..n -> 1..n] : \A i, j \in 1..n : f[i] = f[j] => i = j}

\* What a forward traversal of the table t yields.
TraversalOf(t) ==
  LET nodes == ForwardFrom(t.table, IterSeekToFirst(t.table), Len(t.table) + 1)
  IN [i \in 1..Len(nodes) |-> EntryAt(t.mem, nodes[i])]

\* What every Get returns on the table t.
GetsOf(t) ==
  {<<k, S, GetResult(t.table, t.mem, k, S)>> :
     k \in UserKeys, S \in LookupSeqNums}

(***************************************************************************)
(* SpecAdds: the Add calls alone, made in every order.                     *)
(***************************************************************************)
NextAdds == \E a \in AddInputs : Add(a, MaxAdds)

SpecAdds == Init /\ [][NextAdds]_vars

\* C19: the Add calls made so far, made in any other order, give a table
\* with the same forward traversal and the same result of every Get.
C19_AddCommutes ==
  \A traversal \in {TraversalOf([mem |-> mem, table |-> table_])} :
    \A gets \in {GetsOf([mem |-> mem, table |-> table_])} :
      \A order \in Orders(Len(added)) :
        \A other \in {Replay(order)} :
          /\ TraversalOf(other) = traversal
          /\ GetsOf(other) = gets

\* Two entries of one user key were added, the older one first, so that the
\* other order of the calls lays them out the other way round in memory.
C19_Witness ==
  /\ Len(table_) = 2
  /\ added[1].a.key = added[2].a.key
  /\ SeqLeq(added[1].a.s, added[2].a.s)
  /\ added[1].a.value # added[2].a.value
  /\ table_[1] = added[2].buf
  /\ Replay(<<2, 1>>).table # table_

=============================================================================
